---- MODULE Spec2Model ----
(***************************************************************************)
(* A model of pathfinding_astar::astar_path (src/src/lib.rs).              *)
(*                                                                         *)
(* One call of astar_path is a state machine: the inputs (start_node,      *)
(* nodes, end_node) are fixed by Init, Validate is the code before the     *)
(* loop, Expand is one iteration of the while loop and ReturnPath is the   *)
(* code after the loop.  f32 scores and distances are modelled by natural  *)
(* numbers (no rounding, no NaN).                                          *)
(***************************************************************************)
EXTENDS Naturals, Sequences, FiniteSets

\* ------------------------------------------------------------------ bounds
\* Edge distances of the generated graphs are 0..MaxDist.
MaxDist == 1
\* Node weights of the generated graphs are 0..MaxWeight.
MaxWeight == 1
\* The model follows at most MaxIter iterations of the search loop.
MaxIter == 12

\* The keys of the generated node mappings.
Labels == {1, 2, 3}
NumLabels == Cardinality(Labels)
\* A label that is never a key of the generated node mappings.
Absent == NumLabels + 1
\* The generated graphs have at most MaxEdges edges in all.
MaxEdges == NumLabels
Dists == 0..MaxDist
Weights == 0..MaxWeight

VARIABLES
  start_node,          \* the argument start_node
  nodes,               \* the argument nodes: label -> [edges, weight]
  end_node,            \* the argument end_node
  node_astar_scores,   \* the score table: label -> lowest score accepted so far
  queue,               \* the frontier: sequence of [node, score, path, dist]
  pc,                  \* where the call is
  result,              \* what the call returned
  iter,                \* number of loop iterations executed
  seen,                \* history: the (score table, frontier) pairs at earlier loop heads
  end_candidates,      \* history: every score computed for end_node
  steps                \* history: the neighbours processed by the last iteration

vars == <<start_node, nodes, end_node, node_astar_scores, queue, pc, result,
          iter, seen, end_candidates, steps>>

\* ----------------------------------------------------------- pure helpers
\* A faulty variant of a_star_score: the weight is left out.
AStarScoreDistanceOnly(distance, weighting) == distance

a_star_score(distance, weighting) == distance + weighting

\* A faulty variant of ScoreInsert: an existing record is kept.
ScoreInsertKeepOld(m, k, v) ==
  [x \in (DOMAIN m) \cup {k} |-> IF x \in DOMAIN m THEN m[x] ELSE v]

\* HashMap::insert on the score table.
ScoreInsert(m, k, v) == [x \in (DOMAIN m) \cup {k} |-> IF x = k THEN v ELSE m[x]]

\* The tuple (current_node, a_star_score, vec_previous_nodes_traversed,
\* total_distance_traversed) of the queue.
QueueItem(n, s, p, d) == [node |-> n, score |-> s, path |-> p, dist |-> d]

\* A faulty variant of SwapRemove0: Vec::remove(0), the rest keeps its order.
RemoveFirst(q) == SubSeq(q, 2, Len(q))

\* Vec::swap_remove(0): the last element takes the place of the first.
SwapRemove0(q) ==
  IF Len(q) = 1 THEN << >>
  ELSE <<q[Len(q)]>> \o SubSeq(q, 2, Len(q) - 1)

\* A faulty variant of Matches: an entry with an equal score is not replaced.
MatchesStrict(q_item, item) == q_item.node = item.node /\ q_item.score > item.score

\* A faulty variant of Matches: the label of the entry is not compared.
MatchesAnyLabel(q_item, item) == q_item.score >= item.score

\* `q.0 == n.0` and `q.1 >= astar_score`: the queue entry q_item is replaced
\* by the candidate item.
Matches(q_item, item) == q_item.node = item.node /\ q_item.score >= item.score

\* A faulty variant of QueueOverwrite: the path of the entry is not replaced.
QueueOverwriteKeepPath(q, item) ==
  [i \in DOMAIN q |->
     IF Matches(q[i], item) THEN [item EXCEPT !.path = q[i].path] ELSE q[i]]

\* The loop over queue.iter_mut(): every matching entry is overwritten with
\* the candidate's score, path and distance.
QueueOverwrite(q, item) ==
  [i \in DOMAIN q |-> IF Matches(q[i], item) THEN item ELSE q[i]]

\* new_queue_item_required_for_node after that loop.
NewQueueItemRequired(q, item) == ~ \E i \in DOMAIN q : Matches(q[i], item)

\* A faulty variant of PreviousNodesTraversed: the expanded node is not pushed.
PreviousNodesNoPush(current_path) == current_path.path

\* previous_nodes_traversed: the path of the expanded entry plus its node.
PreviousNodesTraversed(current_path) == Append(current_path.path, current_path.node)

\* A faulty variant of BestPath: end_node is not pushed.
BestPathNoEnd(q, e) == q[1].path

\* best_path: the path of the first entry plus end_node.
BestPath(q, e) == Append(q[1].path, e)

\* A faulty variant of InputsValid: only the start node is looked up.
InputsValidStartOnly(s, g, e) == s \in DOMAIN g

\* The two contains_key checks on entry.
InputsValid(s, g, e) == s \in DOMAIN g /\ e \in DOMAIN g

\* A faulty variant of Improves: every candidate is accepted.
ImprovesAlways(recorded, astar_score) == TRUE

\* A faulty variant of Improves: the comparison is reversed.
ImprovesReversed(recorded, astar_score) == recorded <= astar_score

\* `node_astar_scores.get(&n.0) >= Some(&astar_score)`: the candidate is
\* accepted against the recorded score of its label.
Improves(recorded, astar_score) == recorded >= astar_score

\* A faulty variant of MissingNeighbour: the neighbour is skipped.
MissingNeighbourSkipped(st) == st

\* `None => panic!(..)` of the lookup of the neighbour's weight.
MissingNeighbour(st) == [st EXCEPT !.panicked = TRUE]

\* A faulty variant of InsertByScore: e goes before the elements equal to it.
InsertBeforeEqual(s, e) ==
  LET k == Cardinality({i \in DOMAIN s : s[i].score < e.score})
  IN  SubSeq(s, 1, k) \o <<e>> \o SubSeq(s, k + 1, Len(s))

\* One step of the stable sort: e goes after every element that is not
\* greater than it.
InsertByScore(s, e) ==
  LET k == Cardinality({i \in DOMAIN s : s[i].score <= e.score})
  IN  SubSeq(s, 1, k) \o <<e>> \o SubSeq(s, k + 1, Len(s))

RECURSIVE SortFrom(_, _, _)
SortFrom(q, i, acc) ==
  IF i > Len(q) THEN acc ELSE SortFrom(q, i + 1, InsertByScore(acc, q[i]))

\* A faulty variant of SortByScore: the queue is left as it is.
SortSkipped(q) == q

\* queue.sort_by(|a, b| a.1.partial_cmp(&b.1).unwrap()): a stable sort,
\* ascending by score.
SortByScore(q) == SortFrom(q, 1, << >>)

\* What the history keeps of one neighbour: the candidate, whether its label
\* had a record and the candidate was taken, and the score table and queue
\* before and after.
Step(item, known, taken, st, scores, q) ==
  [item |-> item, known |-> known, taken |-> taken,
   scores_before |-> st.scores, queue_before |-> st.queue,
   scores_after |-> scores, queue_after |-> q]

\* The body of `for n in neightbours.iter()` for one neighbour n, applied to
\* the loop state st = [scores, queue, panicked, cands, log].
ProcessNeighbour(current_path, n, st) ==
  IF st.panicked THEN st
  ELSE IF n.to \notin DOMAIN nodes THEN MissingNeighbour(st)
  ELSE
    LET distance_traveled == current_path.dist + n.dist
        node_weight == nodes[n.to].weight
        astar_score == a_star_score(distance_traveled, node_weight)
        previous_nodes_traversed == PreviousNodesTraversed(current_path)
        item == QueueItem(n.to, astar_score, previous_nodes_traversed,
                          distance_traveled)
        cands == IF n.to = end_node THEN st.cands \cup {astar_score} ELSE st.cands
        known == n.to \in DOMAIN st.scores
        taken == IF known THEN Improves(st.scores[n.to], astar_score) ELSE TRUE
        scores == IF taken THEN ScoreInsert(st.scores, n.to, astar_score)
                  ELSE st.scores
        q == IF known
             THEN IF taken
                  THEN IF NewQueueItemRequired(st.queue, item)
                       THEN Append(st.queue, item)
                       ELSE QueueOverwrite(st.queue, item)
                  ELSE st.queue
             ELSE Append(st.queue, item)
    IN  [scores |-> scores,
         queue |-> q,
         panicked |-> FALSE,
         cands |-> cands,
         log |-> Append(st.log, Step(item, known, taken, st, scores, q))]

RECURSIVE ProcessNeighbours(_, _, _, _)
ProcessNeighbours(current_path, neightbours, i, st) ==
  IF i > Len(neightbours) THEN st
  ELSE ProcessNeighbours(current_path, neightbours, i + 1,
                         ProcessNeighbour(current_path, neightbours[i], st))

\* The (score table, frontier without paths) pair of a loop head: the next
\* iteration depends on nothing else.
Config(scores, q) ==
  <<scores, [i \in DOMAIN q |-> <<q[i].node, q[i].score, q[i].dist>>]>>

Pending == [tag |-> "Pending", path |-> << >>]
NoPath == [tag |-> "None", path |-> << >>]
Panicked == [tag |-> "Panic", path |-> << >>]
SomePath(p) == [tag |-> "Some", path |-> p]

\* ------------------------------------------------------------------ inputs
Edge(t, d) == [to |-> t, dist |-> d]
EdgesTo(T) == {Edge(t, d) : t \in T, d \in Dists}

RECURSIVE SeqsUpTo(_, _)
SeqsUpTo(S, n) ==
  IF n = 0 THEN {<< >>}
  ELSE LET shorter == SeqsUpTo(S, n - 1)
       IN  shorter \cup {Append(s, e) : s \in {t \in shorter : Len(t) = n - 1}, e \in S}

RECURSIVE TotalLen(_, _)
TotalLen(ls, i) == IF i = 0 THEN 0 ELSE Len(ls[i]) + TotalLen(ls, i - 1)

\* The edge lists of labels 1..k, with targets in T and at most b edges in all.
RECURSIVE EdgeListsOf(_, _, _)
EdgeListsOf(T, k, b) ==
  IF k = 0 THEN {<< >>}
  ELSE UNION {{Append(ls, l) : l \in SeqsUpTo(EdgesTo(T), b - TotalLen(ls, k - 1))} :
                ls \in EdgeListsOf(T, k - 1, b)}

\* The node mappings with keys Labels, edge targets in T, at most b edges.
Graphs(T, b) ==
  {[l \in Labels |-> [edges |-> ls[l], weight |-> w[l]]] :
     ls \in EdgeListsOf(T, NumLabels, b), w \in [Labels -> Weights]}

\* ------------------------------------------------------------------- model
\* The labels are used only as keys and compared only for equality, so the
\* start of a well-formed call is taken to be label 1.
Init ==
  /\ \/ /\ nodes \in Graphs(Labels, MaxEdges)
        /\ start_node = 1
        /\ end_node \in Labels
     \/ /\ nodes \in Graphs(Labels \cup {Absent}, MaxEdges - 1)
        /\ start_node \in {1, Absent}
        /\ end_node \in Labels \cup {Absent}
  /\ node_astar_scores = << >>
  /\ queue = << >>
  /\ pc = "Start"
  /\ result = Pending
  /\ iter = 0
  /\ seen = {}
  /\ end_candidates = {}
  /\ steps = << >>

\* Lines 61-92: the two contains_key checks, the seeding of the score table
\* and of the queue.
Validate ==
  /\ pc = "Start"
  /\ IF ~ InputsValid(start_node, nodes, end_node)
     THEN /\ pc' = "PanicInvalidInput"
          /\ result' = Panicked
          /\ UNCHANGED <<node_astar_scores, queue>>
     ELSE LET start_weight == nodes[start_node].weight
          IN  /\ node_astar_scores' = ScoreInsert(<< >>, start_node, start_weight)
              /\ queue' = <<QueueItem(start_node, start_weight, << >>, 0)>>
              /\ pc' = "Exploring"
              /\ UNCHANGED result
  /\ UNCHANGED <<start_node, nodes, end_node, iter, seen, end_candidates, steps>>

\* A faulty variant of QueueExhausted: the length check is left out.
QueueExhaustedNever(q) == FALSE

\* Line 174: `queue.len() == 0` after the sort.
QueueExhausted(q) == Len(q) = 0

\* Lines 97-177: one iteration of `while queue[0].0 != end_node`.
Expand ==
  /\ pc = "Exploring"
  /\ iter < MaxIter
  /\ queue[1].node # end_node
  /\ LET current_path == queue[1]
         neightbours == nodes[current_path.node].edges
         st == ProcessNeighbours(current_path, neightbours, 1,
                 [scores |-> node_astar_scores, queue |-> SwapRemove0(queue),
                  panicked |-> FALSE, cands |-> end_candidates, log |-> << >>])
         sorted == SortByScore(st.queue)
     IN  /\ node_astar_scores' = st.scores
         /\ end_candidates' = st.cands
         /\ steps' = st.log
         /\ IF st.panicked
            THEN /\ queue' = st.queue
                 /\ pc' = "PanicDataIntegrity"
                 /\ result' = Panicked
            ELSE /\ queue' = sorted
                 /\ IF QueueExhausted(sorted)
                    THEN pc' = "Exhausted" /\ result' = NoPath
                    ELSE pc' = "Exploring" /\ UNCHANGED result
  /\ iter' = iter + 1
  /\ seen' = seen \cup {Config(node_astar_scores, queue)}
  /\ UNCHANGED <<start_node, nodes, end_node>>

\* Lines 178-181: the loop condition is false, the path of queue[0] plus
\* end_node is returned.
ReturnPath ==
  /\ pc = "Exploring"
  /\ queue[1].node = end_node
  /\ LET best_path == BestPath(queue, end_node)
     IN  result' = SomePath(best_path)
  /\ pc' = "Found"
  /\ UNCHANGED <<start_node, nodes, end_node, node_astar_scores, queue, iter,
                 seen, end_candidates, steps>>

Next == Validate \/ Expand \/ ReturnPath

Spec == Init /\ [][Next]_vars

\* ---------------------------------------------------------------- fixtures
\* tests::readme_what_is_a_star_example, with S, O1, O2, E as 1, 2, 3, 4.
ReadmeNodes ==
  <<[edges |-> <<Edge(2, 22), Edge(3, 5)>>, weight |-> 1],
    [edges |-> <<Edge(4, 4)>>, weight |-> 4],
    [edges |-> <<Edge(4, 20)>>, weight |-> 1],
    [edges |-> << >>, weight |-> 2]>>

\* tests::grid_like_path: the neighbours (every distance is 1.0) and the
\* weight of the labels 0..15, in the order of the test.
GridTable ==
  << <<<<4, 1>>, 1>>,          <<<<5, 2, 0>>, 7>>,
     <<<<6, 3, 1>>, 3>>,       <<<<7, 2>>, 7>>,
     <<<<8, 5, 0>>, 1>>,       <<<<9, 6, 1, 4>>, 9>>,
     <<<<10, 7, 2, 5>>, 14>>,  <<<<11, 3, 6>>, 6>>,
     <<<<12, 9, 4>>, 1>>,      <<<<13, 10, 5, 8>>, 1>>,
     <<<<14, 11, 6, 9>>, 4>>,  <<<<15, 7, 10>>, 3>>,
     <<<<13, 8>>, 5>>,         <<<<14, 9, 12>>, 8>>,
     <<<<15, 10, 13>>, 9>>,    <<<<11, 14>>, 4>> >>

GridNodes ==
  [l \in 0..(Len(GridTable) - 1) |->
     [edges |-> [i \in DOMAIN GridTable[l + 1][1] |-> Edge(GridTable[l + 1][1][i], 1)],
      weight |-> GridTable[l + 1][2]]]

\* Two routes of two edges to label 4 (through 2 and through 3) and an end
\* (label 5) that no edge reaches; every distance is 1.
RequeueNodes ==
  <<[edges |-> <<Edge(2, 1), Edge(3, 1)>>, weight |-> 0],
    [edges |-> <<Edge(4, 1)>>, weight |-> 0],
    [edges |-> <<Edge(4, 1)>>, weight |-> 2],
    [edges |-> << >>, weight |-> 0],
    [edges |-> << >>, weight |-> 0]>>

IsReadme == nodes = ReadmeNodes /\ start_node = 1 /\ end_node = 4
IsGrid == nodes = GridNodes /\ start_node = 0 /\ end_node = 15
IsRequeue == nodes = RequeueNodes /\ start_node = 1 /\ end_node = 5

\* The generated calls and the calls of the fixtures.
FixtureInit ==
  /\ \/ /\ nodes \in Graphs(Labels, MaxEdges)
        /\ start_node = 1
        /\ end_node \in Labels
     \/ /\ nodes \in Graphs(Labels \cup {Absent}, MaxEdges - 1)
        /\ start_node \in {1, Absent}
        /\ end_node \in Labels \cup {Absent}
     \/ IsReadme
     \/ IsGrid
     \/ IsRequeue
  /\ node_astar_scores = << >>
  /\ queue = << >>
  /\ pc = "Start"
  /\ result = Pending
  /\ iter = 0
  /\ seen = {}
  /\ end_candidates = {}
  /\ steps = << >>

FixtureSpec == FixtureInit /\ [][Next]_vars

\* ------------------------------------------------------- graph vocabulary
HasEdge(a, b) ==
  /\ a \in DOMAIN nodes
  /\ \E i \in DOMAIN nodes[a].edges : nodes[a].edges[i].to = b

\* Every label an edge list references is a key of the node mapping.
NeighboursPresent ==
  \A l \in DOMAIN nodes : \A i \in DOMAIN nodes[l].edges :
    nodes[l].edges[i].to \in DOMAIN nodes

WellFormed ==
  /\ start_node \in DOMAIN nodes
  /\ end_node \in DOMAIN nodes
  /\ NeighboursPresent

RECURSIVE ReachableFrom(_)
ReachableFrom(S) ==
  LET more == S \cup {b \in DOMAIN nodes : \E a \in S : HasEdge(a, b)}
  IN  IF more = S THEN S ELSE ReachableFrom(more)

EndReachable == end_node \in ReachableFrom({start_node})

\* The loop head has been in this (score table, frontier) pair before: the
\* iterations from there on repeat for ever.
Diverges == pc = "Exploring" /\ Config(node_astar_scores, queue) \in seen

Returned == result.tag \in {"Some", "None"}

\* Some edge list of the label references a label that is not a key.
HasDanglingEdge(l) ==
  \E i \in DOMAIN nodes[l].edges : nodes[l].edges[i].to \notin DOMAIN nodes

\* The walks of k edges that leave start_node: p the labels visited, ds the
\* distance travelled on reaching each of them (parallel edges give several
\* walks over the same labels).
RECURSIVE WalksOfLen(_)
WalksOfLen(k) ==
  IF k = 0 THEN {[p |-> <<start_node>>, ds |-> <<0>>]}
  ELSE UNION {
         LET last == w.p[Len(w.p)]
             es == IF last \in DOMAIN nodes THEN nodes[last].edges ELSE << >>
         IN  {[p |-> Append(w.p, es[i].to),
               ds |-> Append(w.ds, w.ds[Len(w.ds)] + es[i].dist)] : i \in DOMAIN es}
         : w \in WalksOfLen(k - 1)}

\* The walks from start_node to end_node of at most as many edges as the
\* graph has labels (every simple path is one of them).
WalksToEnd ==
  {w \in UNION {WalksOfLen(k) : k \in 0..Cardinality(DOMAIN nodes)} :
     w.p[Len(w.p)] = end_node}

\* The a-star score of a whole walk to end_node.
WalkScore(w) == w.ds[Len(w.ds)] + nodes[end_node].weight

\* The a-star score of the returned path.
ReturnedScore == queue[1].dist + nodes[end_node].weight

\* Every node strictly between the ends of the walk is scored, on the walk,
\* strictly below s.
InnerScoresBelow(w, s) ==
  \A i \in 2..(Len(w.p) - 1) : w.ds[i] + nodes[w.p[i]].weight < s

\* The queue q holds an entry for label l.
Queued(q, l) == \E i \in DOMAIN q : q[i].node = l

\* The position of the entry for label l in the queue q.
PosOf(q, l) == CHOOSE i \in DOMAIN q : q[i].node = l

\* The entry at position i of q is in q2 with the same score.
Stays(q, i, q2) ==
  \E k \in DOMAIN q2 : q2[k].node = q[i].node /\ q2[k].score = q[i].score

\* The pairs i < j of entries of q behind the first with equal scores that
\* both stay in q2 with those scores.
TiedPairs(q, q2) ==
  {ij \in (2..Len(q)) \X (2..Len(q)) :
     /\ ij[1] < ij[2]
     /\ q[ij[1]].score = q[ij[2]].score
     /\ Stays(q, ij[1], q2)
     /\ Stays(q, ij[2], q2)}

\* The distances that following the labels p[1], .., p[i] along edges of the
\* graph can add up to (none when some pair is not an edge).
RECURSIVE PathDists(_, _)
PathDists(p, i) ==
  IF i = 1 THEN {0}
  ELSE LET es == IF p[i - 1] \in DOMAIN nodes THEN nodes[p[i - 1]].edges ELSE << >>
       IN  {d + es[k].dist : d \in PathDists(p, i - 1),
                             k \in {x \in DOMAIN es : es[x].to = p[i]}}

\* Every edge distance of the graph is strictly positive.
PositiveDistances ==
  \A l \in DOMAIN nodes : \A i \in DOMAIN nodes[l].edges : nodes[l].edges[i].dist > 0

\* Some label was at the front of the queue at two loop heads.
ExpandedTwice == \E c, d \in seen : c # d /\ c[2][1][1] = d[2][1][1]

\* No label occurs twice in the sequence p.
IsSimple(p) == \A i, j \in DOMAIN p : i # j => p[i] # p[j]

\* One whole iteration that leaves the search exploring.
IterationStep == pc = "Exploring" /\ pc' = "Exploring" /\ iter' = iter + 1

\* ------------------------------------------------------------------ claims

\* C1: whenever astar_path returns a path, its first label is start_node, its
\* last label is end_node, and every consecutive pair of it is an edge of the
\* graph.
C1_PathIsWalk ==
  result.tag = "Some" =>
    LET p == result.path
    IN  /\ Len(p) >= 1
        /\ p[1] = start_node
        /\ p[Len(p)] = end_node
        /\ \A i \in 1..(Len(p) - 1) : HasEdge(p[i], p[i + 1])

C1_Witness ==
  /\ result.tag = "Some"
  /\ Len(result.path) = 3
  /\ result.path[2] \notin {start_node, end_node}

\* C2: in a well-formed graph where end is not reachable from start (and
\* start # end) the call returns None: it neither returns a path, nor fails,
\* nor goes on for ever.
C2_UnreachableReturnsNone ==
  (WellFormed /\ start_node # end_node /\ ~ EndReachable) =>
    /\ result.tag \in {"Pending", "None"}
    /\ ~ Diverges

\* C3: in a well-formed graph where end is reachable from start the call never
\* returns None; an entry for end, once queued, stays in the frontier for as
\* long as the search explores.
C3_ReachableNeverNone ==
  /\ (WellFormed /\ EndReachable) => result.tag # "None"
  /\ (pc = "Exploring" /\ end_node \in DOMAIN node_astar_scores) =>
       \E i \in DOMAIN queue : queue[i].node = end_node

C3_Witness ==
  /\ WellFormed
  /\ start_node # end_node
  /\ pc = "Exploring"
  /\ iter >= 2
  /\ Len(queue) >= 2
  /\ queue[Len(queue)].node = end_node

\* C4: when start_node or end_node is not a key of the node mapping the call
\* panics before any node is expanded and returns neither a path nor None.
C4_MissingEndpointPanics ==
  (start_node \notin DOMAIN nodes \/ end_node \notin DOMAIN nodes) =>
    /\ pc \in {"Start", "PanicInvalidInput"}
    /\ result.tag \in {"Pending", "Panic"}
    /\ iter = 0
    /\ queue = << >>
    /\ node_astar_scores = << >>

C4_Witness ==
  /\ pc = "PanicInvalidInput"
  /\ start_node \in DOMAIN nodes
  /\ end_node \notin DOMAIN nodes
  /\ Len(nodes[start_node].edges) > 0

\* C5: when start = end (a key of the graph) the call returns exactly [start]
\* without expanding a node, whatever the edges and weights are; the result is
\* not None.
C5_StartIsEnd ==
  (start_node = end_node /\ start_node \in DOMAIN nodes) =>
    /\ iter = 0
    /\ pc \in {"Start", "Exploring", "Found"}
    /\ pc = "Exploring" => queue[1].node = end_node
    /\ pc = "Found" => result = SomePath(<<start_node>>)

C5_Witness ==
  /\ start_node = end_node
  /\ pc = "Found"
  /\ Len(nodes[start_node].edges) > 0
  /\ nodes[start_node].weight > 0


\* C6 (as stated): a returned path is the lowest-cost route: no path from
\* start to end has a smaller a-star score (total edge distance plus the
\* weight of end) than the returned one.
C6_ReturnedIsOptimal ==
  pc = "Found" => \A w \in WalksToEnd : WalkScore(w) >= ReturnedScore

\* C6 (amended): a returned path is the lowest-cost route among the paths
\* whose intermediate nodes all score strictly below it: no path from start
\* to end, each of whose intermediate nodes has (distance travelled to it
\* along the path + its weight) strictly below the returned path's score, has
\* a smaller a-star score than the returned path.
C6_OptimalAmongExpanded ==
  pc = "Found" =>
    \A w \in WalksToEnd :
      InnerScoresBelow(w, ReturnedScore) => WalkScore(w) >= ReturnedScore

C6_Witness ==
  /\ pc = "Found"
  /\ iter >= 2
  /\ \E w \in WalksToEnd :
       /\ Len(w.p) >= 3
       /\ w.p # result.path
       /\ InnerScoresBelow(w, ReturnedScore)

\* C7: a returned path is the lowest-scoring discovered path to end: its score
\* (its total distance plus the weight of end) is at most every score computed
\* for end during the search and equals the score-table record of end.
C7_LowestDiscovered ==
  pc = "Found" =>
    /\ \A c \in end_candidates : ReturnedScore <= c
    /\ ReturnedScore = node_astar_scores[end_node]

C7_Witness ==
  /\ pc = "Found"
  /\ Cardinality(end_candidates) >= 2
  /\ iter >= 2

\* C8 (as stated): a graph in which some edge list references a label that is
\* not a key (start and end being keys) makes the call fail: it returns
\* neither a path nor None.
C8_DanglingGraphNeverReturns ==
  (start_node \in DOMAIN nodes /\ end_node \in DOMAIN nodes /\ ~ NeighboursPresent) =>
    ~ Returned

\* C8 (amended): the call fails with the fatal error exactly in the iteration
\* that expands a node whose edge list references a label that is not a key,
\* and then returns neither a path nor None; a graph whose only such edge
\* lists belong to nodes that are never expanded is searched as usual.
C8_DanglingExpansionPanics ==
  [][(pc = "Exploring" /\ iter' = iter + 1) =>
       /\ HasDanglingEdge(queue[1].node) <=> pc' = "PanicDataIntegrity"
       /\ pc' = "PanicDataIntegrity" <=> result'.tag = "Panic"]_vars

C8_Witness ==
  /\ pc = "PanicDataIntegrity"
  /\ result.tag = "Panic"
  /\ iter >= 2

\* C9: on a graph that satisfies the data-model invariant (start, end and
\* every neighbour present, distances and weights >= 0) the loop leaves
\* Exploring after finitely many iterations: no loop head ever repeats.
C9_LoopTerminates ==
  WellFormed => ~ Diverges


\* C11: on the README graph with start S and end E the call returns exactly
\* [S, O2, E]; the candidate for E through O1, computed in the third
\* iteration with score 28, is rejected against the recorded score 27 of the
\* candidate through O2 and changes nothing.
C11_ReadmePath ==
  IsReadme =>
    /\ pc \in {"Start", "Exploring", "Found"}
    /\ pc = "Found" => result = SomePath(<<1, 3, 4>>)
    /\ iter = 3 =>
         /\ queue[1].node = 4
         /\ queue[1].score = 27
         /\ Len(steps) = 1
         /\ steps[1].item.node = 4
         /\ steps[1].item.path = <<1, 2>>
         /\ steps[1].item.score = 28
         /\ steps[1].scores_before[4] = 27
         /\ ~ steps[1].taken
         /\ steps[1].queue_after = steps[1].queue_before
         /\ steps[1].scores_after = steps[1].scores_before

C11_Witness ==
  /\ IsReadme
  /\ pc = "Found"
  /\ iter = 3
  /\ result.path = <<1, 3, 4>>

\* C12: on the 4x4 grid of tests::grid_like_path with start 0 and end 15 the
\* call returns exactly [0, 4, 8, 9, 10, 11, 15].
C12_GridPath ==
  IsGrid =>
    /\ pc \in {"Start", "Exploring", "Found"}
    /\ pc = "Exploring" => iter < MaxIter \/ queue[1].node = end_node
    /\ pc = "Found" => result = SomePath(<<0, 4, 8, 9, 10, 11, 15>>)

C12_Witness ==
  /\ IsGrid
  /\ pc = "Found"
  /\ result.tag = "Some"
  /\ Len(result.path) = 7


\* C13: dominance: at every loop head the frontier holds at most one entry per
\* label (so it is no longer than the graph has labels), and processing a
\* neighbour never adds an entry for a label that already has one.
C13_OneEntryPerLabel ==
  /\ pc = "Exploring" =>
       /\ \A i, j \in DOMAIN queue : queue[i].node = queue[j].node => i = j
       /\ Len(queue) <= Cardinality(DOMAIN nodes)
  /\ \A k \in DOMAIN steps :
       Queued(steps[k].queue_before, steps[k].item.node) =>
         Len(steps[k].queue_after) = Len(steps[k].queue_before)

C13_Witness ==
  /\ pc = "Exploring"
  /\ Len(queue) >= 2
  /\ \E k \in DOMAIN steps :
       /\ steps[k].taken
       /\ Queued(steps[k].queue_before, steps[k].item.node)
       /\ steps[k].scores_before[steps[k].item.node] = steps[k].item.score

\* C14 (as stated): two entries that stay in the frontier from one loop head
\* to the next with equal, unchanged scores keep their relative order, so tied
\* entries are expanded in the order in which they were added.
C14_TiesKeepOrder ==
  [][IterationStep =>
       \A ij \in TiedPairs(queue, queue') :
         PosOf(queue', queue[ij[1]].node) < PosOf(queue', queue[ij[2]].node)]_vars

\* C14 (amended): the sort is stable but the pop is not: two entries that stay
\* in the frontier from one loop head to the next with equal, unchanged scores
\* keep their relative order unless the later one was the last entry of the
\* frontier; swap_remove(0) moves the last entry to the front, so it comes
\* before every entry it ties with.
C14_TiesKeepOrderButLast ==
  [][IterationStep =>
       \A ij \in TiedPairs(queue, queue') :
         IF ij[2] < Len(queue)
         THEN PosOf(queue', queue[ij[1]].node) < PosOf(queue', queue[ij[2]].node)
         ELSE PosOf(queue', queue[ij[2]].node) < PosOf(queue', queue[ij[1]].node)]_vars

C14_Witness ==
  /\ pc = "Exploring"
  /\ iter >= 2
  /\ \E c \in seen :
       /\ Len(c[2]) >= 3
       /\ c[2][2][2] = c[2][Len(c[2])][2]
       /\ Queued(queue, c[2][2][1])
       /\ Queued(queue, c[2][Len(c[2])][1])
       /\ queue[PosOf(queue, c[2][2][1])].score = c[2][2][2]
       /\ queue[PosOf(queue, c[2][Len(c[2])][1])].score = c[2][2][2]
       /\ PosOf(queue, c[2][Len(c[2])][1]) < PosOf(queue, c[2][2][1])

\* C15: at every evaluation of the loop condition the frontier is sorted
\* ascending by score, so the entry that is expanded or returned scores at
\* most as much as every other entry of the frontier.
C15_QueueSorted ==
  pc \in {"Exploring", "Found"} =>
    /\ \A i, j \in DOMAIN queue : i < j => queue[i].score <= queue[j].score
    /\ \A i \in DOMAIN queue : queue[1].score <= queue[i].score

C15_Witness ==
  /\ pc = "Exploring"
  /\ iter >= 2
  /\ Len(queue) >= 3
  /\ queue[1].score < queue[Len(queue)].score
  /\ \E k \in DOMAIN steps : ~ steps[k].known


\* C16: tie displacement: a candidate whose score is at most the recorded
\* score of its label, while the frontier holds an entry for that label,
\* overwrites that entry in place with its score, path and distance (on an
\* equal score the later path wins); no entry is added and no other entry
\* changes.
C16_OverwriteInPlace ==
  \A k \in DOMAIN steps :
    LET s == steps[k]
    IN  (/\ s.known
         /\ s.item.score <= s.scores_before[s.item.node]
         /\ Queued(s.queue_before, s.item.node)) =>
          /\ Len(s.queue_after) = Len(s.queue_before)
          /\ \A i \in DOMAIN s.queue_before :
               s.queue_after[i] = IF s.queue_before[i].node = s.item.node
                                  THEN s.item
                                  ELSE s.queue_before[i]

C16_Witness ==
  \E k \in DOMAIN steps :
    LET s == steps[k]
    IN  /\ s.known
        /\ Len(s.queue_before) >= 2
        /\ Queued(s.queue_before, s.item.node)
        /\ s.item.score = s.scores_before[s.item.node]
        /\ s.queue_before[PosOf(s.queue_before, s.item.node)].path # s.item.path

\* C17: the score table only moves downward: it starts as
\* {start: weight(start)}, no label is ever removed, no recorded score ever
\* increases, and a candidate that scores strictly more than the record of
\* its label changes neither the table nor the frontier.
C17_ScoresOnlyDecrease ==
  /\ [](pc = "Exploring" /\ iter = 0 =>
          /\ DOMAIN node_astar_scores = {start_node}
          /\ node_astar_scores[start_node] = nodes[start_node].weight)
  /\ [][/\ DOMAIN node_astar_scores \subseteq DOMAIN node_astar_scores'
        /\ \A l \in DOMAIN node_astar_scores :
             node_astar_scores'[l] <= node_astar_scores[l]
        /\ \A k \in DOMAIN steps' :
             (/\ steps'[k].known
              /\ steps'[k].item.score > steps'[k].scores_before[steps'[k].item.node]) =>
               /\ steps'[k].scores_after = steps'[k].scores_before
               /\ steps'[k].queue_after = steps'[k].queue_before]_vars

C17_Witness ==
  /\ iter >= 2
  /\ \E k \in DOMAIN steps :
       /\ steps[k].known
       /\ steps[k].item.score < steps[k].scores_before[steps[k].item.node]
  /\ \E k \in DOMAIN steps :
       /\ steps[k].known
       /\ steps[k].item.score > steps[k].scores_before[steps[k].item.node]

\* C18: score bookkeeping: for every frontier entry of every reachable state,
\* its path followed by its label is a walk of the graph that begins at start
\* (the path is empty only for the seeded start entry), its distance is the
\* sum of the distances of the edges of that walk, and its score is that
\* distance plus the weight of its label alone.
C18_EntryBookkeeping ==
  \A i \in DOMAIN queue :
    LET e == queue[i]
        walk == Append(e.path, e.node)
    IN  /\ walk[1] = start_node
        /\ e.dist \in PathDists(walk, Len(walk))
        /\ e.score = e.dist + nodes[e.node].weight
        /\ e.path = << >> => (e.node = start_node /\ e.dist = 0 /\ iter = 0)

C18_Witness ==
  \E i \in DOMAIN queue :
    /\ Len(queue[i].path) >= 2
    /\ queue[i].dist > 0
    /\ nodes[queue[i].path[2]].weight > 0
    /\ nodes[queue[i].node].weight > 0

\* C19: at every loop head the score of every frontier entry equals the
\* score-table record of its label; so no accepted candidate ever meets a
\* frontier entry for its label with a strictly better score (the case in
\* which the code would push a second entry).
C19_EntryScoreIsRecord ==
  /\ pc = "Exploring" =>
       \A i \in DOMAIN queue :
         /\ queue[i].node \in DOMAIN node_astar_scores
         /\ queue[i].score = node_astar_scores[queue[i].node]
  /\ \A k \in DOMAIN steps :
       steps[k].taken =>
         \A i \in DOMAIN steps[k].queue_before :
           steps[k].queue_before[i].node = steps[k].item.node =>
             steps[k].queue_before[i].score >= steps[k].item.score

C19_Witness ==
  /\ pc = "Exploring"
  /\ Len(queue) >= 2
  /\ \E k \in DOMAIN steps :
       /\ steps[k].taken
       /\ Queued(steps[k].queue_before, steps[k].item.node)
       /\ steps[k].item.score < steps[k].scores_before[steps[k].item.node]

\* C20: on a well-formed graph whose edge distances are all strictly positive
\* the search ends after finitely many iterations: no loop head repeats and
\* the iterations the model follows suffice, although a label can be expanded
\* more than once.
C20_PositiveTerminates ==
  (WellFormed /\ PositiveDistances) =>
    /\ ~ Diverges
    /\ pc = "Exploring" => iter < MaxIter \/ queue[1].node = end_node

C20_Witness ==
  /\ WellFormed
  /\ PositiveDistances
  /\ pc \in {"Found", "Exhausted"}
  /\ ExpandedTwice


\* C21: the frontier is non-empty whenever its first element is read (the
\* loop condition and swap_remove(0) at a loop head, queue[0] at the return),
\* so there is no out-of-bounds access; None is the result exactly when an
\* iteration's expansion and sort left the frontier empty.
C21_FrontReadInBounds ==
  /\ pc = "Exploring" => Len(queue) >= 1
  /\ pc = "Found" => Len(queue) >= 1
  /\ result = NoPath <=>
       (pc \in {"Exploring", "Found", "Exhausted"} /\ Len(queue) = 0)
  /\ result = NoPath => (pc = "Exhausted" /\ iter >= 1)

C21_Witness ==
  /\ pc = "Exhausted"
  /\ result = NoPath
  /\ Len(queue) = 0
  /\ iter >= 2
  /\ \E k \in DOMAIN steps : ~ steps[k].taken

\* C22: when every edge distance is strictly positive, the path of every
\* frontier entry followed by its label contains no label twice, and so a
\* returned path visits no node more than once.
C22_PathsSimple ==
  PositiveDistances =>
    /\ \A i \in DOMAIN queue : IsSimple(Append(queue[i].path, queue[i].node))
    /\ result.tag = "Some" => IsSimple(result.path)

C22_Witness ==
  /\ PositiveDistances
  /\ result.tag = "Some"
  /\ Len(result.path) >= 3
  /\ \E k \in DOMAIN steps :
       /\ steps[k].item.node \in
            {steps[k].item.path[i] : i \in DOMAIN steps[k].item.path}
       /\ ~ steps[k].taken

====
